---- MODULE Spec2Model ----
(***************************************************************************)
(* Model of the persistence layer of the Whisper application:              *)
(* DatabaseManager (src/src/database_manager.py) with its file-based       *)
(* migration runner, DatabaseManager.migrations, run by one process or by  *)
(* two, the connection manager of src/src/db/manager.py used through its   *)
(* public methods, and the recording window of src/src/window.py with its  *)
(* pipeline, recording files and confirmation dialogs.                     *)
(*                                                                         *)
(* File names and migration names are sequences of one-character strings,  *)
(* so that the file-name pattern, the lexical sort and the comparison of   *)
(* Python values are computed rather than assumed.                         *)
(***************************************************************************)
EXTENDS Integers, Sequences, FiniteSets, TLC

(***************************************************************************)
(* Bounds of the model.                                                    *)
(***************************************************************************)
\* number of migrations() calls explored in one behaviour
MaxCalls == 2
\* number of entries the migration directory holds at one time
MaxFiles == 2
\* number of ledger rows written through execute() outside migrations()
MaxLedger == 1

(***************************************************************************)
(* Python values.  A value carries its type, as in Python, so that a       *)
(* tuple never compares equal to a string.                                 *)
(***************************************************************************)
PyNone == [tag |-> "NoneType"]
PyStr(s) == [tag |-> "str", val |-> s]
PyInt(n) == [tag |-> "int", val |-> n]
PyTuple(items) == [tag |-> "tuple", val |-> items]

\* Python's == on the values above
PyEq(a, b) ==
    /\ a.tag = b.tag
    /\ IF a.tag = "NoneType" THEN TRUE ELSE a.val = b.val

\* Python's `x in list`
PyIn(x, list) == \E i \in 1..Len(list) : PyEq(x, list[i])

(***************************************************************************)
(* Characters and their code-point order (the order sorted() uses).        *)
(***************************************************************************)
Digit == {"0", "1", "2", "3", "4", "5", "6", "7", "8", "9"}
Lower == {"a", "b", "c", "d", "e", "f", "g", "h", "i", "j", "k", "l", "m",
          "n", "o", "p", "q", "r", "s", "t", "u", "v", "w", "x", "y", "z"}
\* the character class [a-z0-9_] of the pattern
NameChar == Lower \cup Digit \cup {"_"}

\* the characters used by the file names of the model, in code-point order
CodePoints ==
    <<"\n", ".", "0", "1", "2", "3", "4", "5", "6", "7", "8", "9",
      "A", "D", "E", "I", "M", "R", "_",
      "a", "b", "c", "d", "e", "f", "g", "h", "i", "j", "k", "l", "m",
      "n", "o", "p", "q", "r", "s", "t", "u", "v", "w", "x", "y", "z">>

ord(c) == CHOOSE i \in 1..Len(CodePoints) : CodePoints[i] = c

\* Python's < on str: lexicographic by code point, a proper prefix is smaller
RECURSIVE StrLess(_, _)
StrLess(a, b) ==
    IF b = <<>> THEN FALSE
    ELSE IF a = <<>> THEN TRUE
    ELSE IF Head(a) = Head(b) THEN StrLess(Tail(a), Tail(b))
    ELSE ord(Head(a)) < ord(Head(b))

\* the listing taken as the directory gives it
sorted_omitted(listing) == listing

\* sorted(listing)
sorted(listing) == SortSeq(listing, StrLess)

(***************************************************************************)
(* MIGRATION_FILE_PATTERN = ^\d{14}_([a-z0-9_]+)\.sql$ and pattern.match.  *)
(***************************************************************************)
PrefixLen == 14
Suffix == <<".", "s", "q", "l">>

\* the pattern compiled with re.IGNORECASE
match_groups_ignorecase(filename) ==
    LET n == Len(filename)
        body == IF n > 0 /\ filename[n] = "\n"
                THEN SubSeq(filename, 1, n - 1) ELSE filename
        m == Len(body)
        Upper == {"A", "D", "E", "I", "M", "R"}
    IN  IF /\ m >= PrefixLen + 1 + 1 + Len(Suffix)
           /\ \A i \in 1..PrefixLen : body[i] \in Digit
           /\ body[PrefixLen + 1] = "_"
           /\ \A i \in (PrefixLen + 2)..(m - Len(Suffix)) :
                 body[i] \in NameChar \cup Upper
           /\ SubSeq(body, m - Len(Suffix) + 1, m) = Suffix
        THEN PyTuple(<<PyStr(SubSeq(body, PrefixLen + 2, m - Len(Suffix)))>>)
        ELSE PyNone

\* pattern.match(filename): None, or the match whose groups() is the
\* 1-tuple holding the captured name.  `$` also matches just before a
\* trailing newline.
match_groups(filename) ==
    LET n == Len(filename)
        body == IF n > 0 /\ filename[n] = "\n"
                THEN SubSeq(filename, 1, n - 1) ELSE filename
        m == Len(body)
    IN  IF /\ m >= PrefixLen + 1 + 1 + Len(Suffix)
           /\ \A i \in 1..PrefixLen : body[i] \in Digit
           /\ body[PrefixLen + 1] = "_"
           /\ \A i \in (PrefixLen + 2)..(m - Len(Suffix)) : body[i] \in NameChar
           /\ SubSeq(body, m - Len(Suffix) + 1, m) = Suffix
        THEN PyTuple(<<PyStr(SubSeq(body, PrefixLen + 2, m - Len(Suffix)))>>)
        ELSE PyNone

\* the 14-digit ordering key of a matching file name
PrefixOf(filename) == SubSeq(filename, 1, PrefixLen)
(***************************************************************************)
(* The database engine as the manager sees it through sqlite3.             *)
(*                                                                         *)
(* A database is the set of its tables, the number of rows of each data    *)
(* table and the rows of the ledger table `migrations`, in id order.       *)
(***************************************************************************)
LedgerTable == "migrations"
DataTables == {"t", "u"}

EmptyDb ==
    [tables |-> {}, rows |-> [x \in DataTables |-> 0], ledger |-> <<>>]

\* SQL statements of the model
CreateTable(x) == [op |-> "create", table |-> x, if_not_exists |-> FALSE]
CreateTableIfNotExists(x) == [op |-> "create", table |-> x, if_not_exists |-> TRUE]
\* INSERT of one valid row into a data table
InsertRow(x) == [op |-> "insert", table |-> x]
\* INSERT that violates a NOT NULL constraint of the table
InsertNull(x) == [op |-> "violate", table |-> x]
\* a statement that creates another table than the ledger
create_other_table_sql == CreateTableIfNotExists("u")
\* CREATE TABLE IF NOT EXISTS migrations (id INTEGER PRIMARY KEY, name ...)
create_migrations_table_sql == CreateTableIfNotExists(LedgerTable)
\* INSERT INTO migrations (name) VALUES (?)
InsertLedgerSql == [op |-> "insert_ledger", table |-> LedgerTable]

\* SELECT * FROM migrations
SelectAll == [op |-> "select", table |-> LedgerTable, where |-> FALSE]
\* SELECT * FROM migrations WHERE name = ?
SelectByName == [op |-> "select", table |-> LedgerTable, where |-> TRUE]
\* SELECT name FROM sqlite_master WHERE type='table' AND name=?
table_exists_query == [op |-> "select_master", table |-> "sqlite_master"]

\* text that is not SQL
NotSql == [op |-> "garbage", table |-> ""]

\* the statement compiles against the database: its table is there, and a
\* CREATE TABLE without IF NOT EXISTS names a table that is not
Prepared(db, stmt) ==
    CASE stmt.op = "create" -> stmt.if_not_exists \/ stmt.table \notin db.tables
      [] stmt.op \in {"insert", "violate", "insert_ledger", "select"} ->
           stmt.table \in db.tables
      [] stmt.op = "select_master" -> TRUE
      [] stmt.op = "garbage" -> FALSE

\* INSERT, UPDATE, DELETE and REPLACE open a transaction implicitly
is_dml(stmt) == stmt.op \in {"insert", "violate", "insert_ledger"}

\* every Python object is taken as a parameter
Bindable_any(params) == TRUE

\* the types sqlite3 binds to a `?` without an adapter
Bindable(params) ==
    \A i \in 1..Len(params) : params[i].tag \in {"NoneType", "int", "str"}

\* id of the next ledger row: INTEGER PRIMARY KEY takes max(id) + 1
NextId(ledger) == IF ledger = <<>> THEN 1 ELSE ledger[Len(ledger)].id + 1

\* the engine runs one statement on a database
StmtResult(db, stmt, params) ==
    CASE stmt.op = "create" ->
           IF stmt.table \in db.tables
           THEN [ok |-> stmt.if_not_exists, db |-> db,
                 err |-> IF stmt.if_not_exists THEN "" ELSE "OperationalError"]
           ELSE [ok |-> TRUE, err |-> "",
                 db |-> [db EXCEPT !.tables = @ \cup {stmt.table}]]
      [] stmt.op = "insert" ->
           IF stmt.table \in db.tables
           THEN [ok |-> TRUE, err |-> "",
                 db |-> [db EXCEPT !.rows[stmt.table] = @ + 1]]
           ELSE [ok |-> FALSE, db |-> db, err |-> "OperationalError"]
      [] stmt.op = "violate" ->
           [ok |-> FALSE, db |-> db,
            err |-> IF stmt.table \in db.tables
                    THEN "IntegrityError" ELSE "OperationalError"]
      [] stmt.op = "garbage" ->
           [ok |-> FALSE, db |-> db, err |-> "OperationalError"]
      [] stmt.op = "insert_ledger" ->
           IF LedgerTable \notin db.tables
           THEN [ok |-> FALSE, db |-> db, err |-> "OperationalError"]
           ELSE IF params[1].tag = "NoneType"
           THEN [ok |-> FALSE, db |-> db, err |-> "IntegrityError"]
           ELSE [ok |-> TRUE, err |-> "",
                 db |-> [db EXCEPT !.ledger =
                           Append(@, [id |-> NextId(@), name |-> params[1]])]]
      [] stmt.op \in {"select", "select_master"} ->
           [ok |-> TRUE, err |-> "", db |-> db]

\* the rows a SELECT yields, in id order; a row of sqlite_master carries the
\* name of a table
Rows(db, stmt, params) ==
    CASE stmt.op = "select" ->
           SelectSeq(db.ledger,
                     LAMBDA r : stmt.where => PyEq(r.name, params[1]))
      [] stmt.op = "select_master" ->
           IF params[1].val \in db.tables
           THEN <<[name |-> params[1]]>> ELSE <<>>
      [] OTHER -> <<>>

(***************************************************************************)
(* The connection: disk is the committed database, view is what the        *)
(* connection sees (disk plus the changes of its open transaction), inTx   *)
(* tells whether a transaction is open.                                    *)
(***************************************************************************)
Conn(d, v, t) == [disk |-> d, view |-> v, inTx |-> t]

\* self.conn.commit()
conn_commit(c) == Conn(c.view, c.view, FALSE)

\* a rollback that also empties the committed ledger
conn_rollback_wipe(c) ==
    Conn([c.disk EXCEPT !.ledger = <<>>], [c.disk EXCEPT !.ledger = <<>>], FALSE)

\* a rollback that ends the transaction and keeps its changes
conn_rollback_keep(c) == Conn(c.view, c.view, FALSE)

\* self.conn.rollback()
conn_rollback(c) == Conn(c.disk, c.disk, FALSE)

\* self.execute(query, params): the statement is compiled, a transaction
\* is opened before a DML statement, then the parameters are bound, then
\* the statement runs; other statements run in the open transaction or,
\* without one, are committed at once
execute(c, stmt, params) ==
    LET c1 == IF is_dml(stmt) /\ ~c.inTx THEN Conn(c.disk, c.view, TRUE) ELSE c
    IN  IF ~Prepared(c.view, stmt)
        THEN [ok |-> FALSE, err |-> "OperationalError", c |-> c]
        ELSE IF ~Bindable(params)
        THEN [ok |-> FALSE, err |-> "ProgrammingError", c |-> c1]
        ELSE LET r == StmtResult(c1.view, stmt, params)
             IN  IF ~r.ok THEN [ok |-> FALSE, err |-> r.err, c |-> c1]
                 ELSE IF c1.inTx
                      THEN [ok |-> TRUE, err |-> "", c |-> Conn(c1.disk, r.db, TRUE)]
                      ELSE [ok |-> TRUE, err |-> "", c |-> Conn(r.db, r.db, FALSE)]

\* the statements of a script, run one by one in autocommit mode; the
\* script stops at the first statement that raises
RECURSIVE RunScript(_, _)
RunScript(db, script) ==
    IF script = <<>> THEN [ok |-> TRUE, err |-> "", db |-> db]
    ELSE LET r == StmtResult(db, Head(script), <<>>)
         IN  IF r.ok THEN RunScript(r.db, Tail(script))
             ELSE [ok |-> FALSE, err |-> r.err, db |-> db]

\* self.executescript(script): an open transaction is committed first, then
\* the script runs with no transaction around it
executescript(c, script) ==
    LET c0 == IF c.inTx THEN conn_commit(c) ELSE c
        r == RunScript(c0.view, script)
    IN  [ok |-> r.ok, err |-> r.err, c |-> Conn(r.db, r.db, FALSE)]

\* leaving `with self.conn:`: commit if the block ended normally, roll back
\* if it raised
with_exit(c, ok) == IF ok THEN conn_commit(c) ELSE conn_rollback(c)

\* self.query('SELECT name FROM migrations;'): the names in id order
query_names(db) == [i \in 1..Len(db.ledger) |-> db.ledger[i].name]

(***************************************************************************)
(* The migration directory: the files it can hold and their contents.      *)
(***************************************************************************)
Stamp0 == <<"2", "0", "2", "4", "0", "1", "0", "1", "0", "0", "0", "0", "0", "0">>
Stamp1 == <<"2", "0", "2", "4", "0", "1", "0", "1", "0", "0", "0", "0", "0", "1">>
Stamp2 == <<"2", "0", "2", "4", "0", "1", "0", "1", "0", "0", "0", "0", "0", "2">>

\* 20240101000000_init.sql
F_init == Stamp0 \o <<"_", "i", "n", "i", "t">> \o Suffix
\* 20240101000001_second.sql
F_second == Stamp1 \o <<"_", "s", "e", "c", "o", "n", "d">> \o Suffix
\* 20240101000002_init.sql: another prefix, the same name part
F_dup == Stamp2 \o <<"_", "i", "n", "i", "t">> \o Suffix
\* 20240101000000_Init.sql: an upper-case letter, sorts before F_init
F_upper == Stamp0 \o <<"_", "I", "n", "i", "t">> \o Suffix
\* README.md
F_readme == <<"R", "E", "A", "D", "M", "E", ".", "m", "d">>

Files == {F_init, F_second, F_dup, F_upper, F_readme}

\* CREATE TABLE t (..); INSERT INTO t ..;
S_init == <<CreateTable("t"), InsertRow("t")>>
\* the same with a last statement that violates a constraint
S_bad == <<CreateTable("t"), InsertRow("t"), InsertNull("t")>>
\* a script that can run again: CREATE TABLE IF NOT EXISTS t (..); INSERT ..;
S_again == <<CreateTableIfNotExists("t"), InsertRow("t")>>
\* CREATE TABLE u (..);
S_second == <<CreateTable("u")>>
\* INSERT INTO t ..;
S_dup == <<InsertRow("t")>>
\* text of a file that is not a migration
S_text == <<NotSql>>

\* the contents a file of the model can have
ScriptsOf(f) ==
    CASE f = F_init -> {S_init, S_bad, S_again}
      [] f = F_second -> {S_second}
      [] f = F_dup -> {S_dup}
      [] f = F_upper -> {S_init}
      [] f = F_readme -> {S_text}

\* a directory maps the names of its entries to their contents
Dirs ==
    UNION {{d \in [D -> UNION {ScriptsOf(f) : f \in D}] :
               \A f \in D : d[f] \in ScriptsOf(f)} :
           D \in {D \in SUBSET Files : Cardinality(D) <= MaxFiles}}

\* os.listdir returns the entries in arbitrary order
Listings(D) ==
    {l \in [1..Cardinality(D) -> D] : \A f \in D : \E i \in DOMAIN l : l[i] = f}

(***************************************************************************)
(* State.                                                                  *)
(***************************************************************************)
VARIABLES
    dir,                 \* the migration directory
    disk,                \* the committed database (the database file)
    view,                \* the database as the connection sees it
    inTx,                \* the connection has an open transaction
    pc,                  \* "idle", or "loop" inside migrations()
    applied_migrations,  \* the names read from the ledger by the running call
    todo,                \* the sorted entries the loop has not reached yet
    cur,                 \* record of the running call
    hist,                \* records of the last two finished calls, oldest first
    ncalls               \* number of calls started so far

\* the connection manager (src/src/db/manager.py) and the calls made on it
VARIABLES
    self_conn,           \* self._conn: 0 for None, else the index of a handle
    handles,             \* every connection handle opened so far
    closed,              \* the handle close() closed, 0 once conn is accessed again
    last,                \* record of the last call made on the manager
    txStart,             \* the database when the last transaction began
    atCommit,            \* the database at the last commit(), with
    onlyExecute          \* whether only execute() has written since then

\* a second runner of migrations() on the same database file and directory
VARIABLES
    pc2,                 \* "idle", "loop" or "done"
    applied2,            \* the names the second runner read from the ledger
    todo2,               \* the sorted entries its loop has not reached yet
    cur2,                \* record of its call
    overlap              \* the number of the first runner's call that had
                         \* read the ledger and not yet taken a turn when
                         \* the second runner read it, 0 if none

\* the recording window (src/src/window.py)
VARIABLES
    pipeline,                \* self.pipeline: 0 for None, else a pipeline object
    current_recording_path,  \* self.current_recording_path: 0 for None
    pipelines,               \* the pipeline objects created: state and file path
    files,                   \* the recording files on disk
    page,                    \* the visible page of nav_view
    dialogs,                 \* the confirmation dialogs open and unanswered
    destroyed,               \* the window has been destroyed
    wlast,                   \* record of the last event handled
    removed,                 \* the files deleted so far, and by which event
    strayed                  \* Record or Stop was clicked with a dialog open

winVars == <<pipeline, current_recording_path, pipelines, files, page, dialogs,
             destroyed, wlast, removed, strayed>>

mgrVars == <<self_conn, handles, closed, last, txStart, atCommit, onlyExecute>>
peerVars == <<pc2, applied2, todo2, cur2, overlap>>

vars == <<dir, disk, view, inTx, pc, applied_migrations, todo, cur, hist, ncalls,
          mgrVars, peerVars, winVars>>

NoCall == [dir |-> <<>>, listing |-> <<>>, before |-> EmptyDb,
           start |-> EmptyDb, log |-> <<>>]

\* the record of a call made on the manager: the method, its statement and
\* parameters, whether it raised and what, the value it returned, self._conn
\* and the number of handles before the call, the handle closed just before
\* it (0 if none) and the connection state before it
Call(op, stmt, params, raised, err, result, h0, n0, cl, before) ==
    [op |-> op, stmt |-> stmt, params |-> params, raised |-> raised,
     err |-> err, result |-> result, h0 |-> h0, n0 |-> n0, closed |-> cl,
     before |-> before]

NoStmt == [op |-> "none", table |-> ""]

NoOp == Call("none", NoStmt, <<>>, FALSE, "", PyNone, 0, 0, 0,
             [disk |-> EmptyDb, view |-> EmptyDb, inTx |-> FALSE])

\* the record of an event of the window: the event, the response given if
\* it answers a dialog, what its handler returned, and self.pipeline, its
\* state, self.current_recording_path, the files and the open dialogs
\* before the event
WindowEvent(ev, response, returned, p0, state0, path0, files0, dialogs0) ==
    [ev |-> ev, response |-> response, returned |-> returned, pipeline |-> p0,
     state |-> state0, path |-> path0, files |-> files0, dialogs |-> dialogs0]

NoEvent == WindowEvent("none", "", FALSE, 0, "", 0, {}, <<>>)

Init ==
    /\ pipeline = 0
    /\ current_recording_path = 0
    /\ pipelines = <<>>
    /\ files = {}
    /\ page = "home"
    /\ dialogs = <<>>
    /\ destroyed = FALSE
    /\ wlast = NoEvent
    /\ removed = {}
    /\ strayed = FALSE
    /\ self_conn = 0
    /\ handles = <<>>
    /\ closed = 0
    /\ last = NoOp
    /\ txStart = EmptyDb
    /\ atCommit = EmptyDb
    /\ onlyExecute = TRUE
    /\ pc2 = "idle"
    /\ applied2 = <<>>
    /\ todo2 = <<>>
    /\ cur2 = NoCall
    /\ overlap = 0
    /\ dir \in Dirs
    /\ disk = EmptyDb
    /\ view = EmptyDb
    /\ inTx = FALSE
    /\ pc = "idle"
    /\ applied_migrations = <<>>
    /\ todo = <<>>
    /\ cur = NoCall
    /\ hist = <<>>
    /\ ncalls = 0

(***************************************************************************)
(* DatabaseManager.migrations.                                             *)
(***************************************************************************)
\* what one turn of the loop did with one directory entry
\* directory entry: kind is "nomatch", "skipped", "applied" or "failed";
\* step is the statement that raised ("script" or "insert"); read, ran and
\* recorded tell whether the file was opened, its script was executed and
\* its ledger row was inserted; before and after are the committed database
\* around the turn
Event(f, kind, step, read, ran, recorded, err, before, after) ==
    [file |-> f, kind |-> kind, step |-> step, read |-> read, ran |-> ran,
     recorded |-> recorded, err |-> err, before |-> before, after |-> after]

\* a turn that records the migration under its name before it runs the
\* script
loop_body_record_first(c, applied, filename, sql) ==
    LET match == match_groups(filename)
    IN  IF match = PyNone
        THEN [raised |-> FALSE, c |-> c,
              ev |-> Event(filename, "nomatch", "", FALSE, FALSE, FALSE, "", c.disk, c.disk)]
        ELSE IF PyIn(match.val[1], applied)
        THEN [raised |-> FALSE, c |-> c,
              ev |-> Event(filename, "skipped", "", FALSE, FALSE, FALSE, "", c.disk, c.disk)]
        ELSE LET r2 == execute(c, InsertLedgerSql, <<match.val[1]>>)
                 r1 == executescript(r2.c, sql)
             IN  IF ~r2.ok
                 THEN LET c2 == with_exit(r2.c, FALSE)
                      IN  [raised |-> TRUE, c |-> c2,
                           ev |-> Event(filename, "failed", "insert", TRUE, FALSE, FALSE,
                                        r2.err, c.disk, c2.disk)]
                 ELSE IF ~r1.ok
                 THEN LET c1 == with_exit(r1.c, FALSE)
                      IN  [raised |-> TRUE, c |-> c1,
                           ev |-> Event(filename, "failed", "script", TRUE, TRUE, TRUE,
                                        r1.err, c.disk, c1.disk)]
                 ELSE LET c3 == with_exit(r1.c, TRUE)
                      IN  [raised |-> FALSE, c |-> c3,
                           ev |-> Event(filename, "applied", "", TRUE, TRUE, TRUE,
                                        "", c.disk, c3.disk)]

\* a turn that catches the exception of a migration and lets the loop go on
loop_body_swallow(c, applied, filename, sql) ==
    LET match == match_groups(filename)
        name == match
    IN  IF match = PyNone
        THEN [raised |-> FALSE, c |-> c,
              ev |-> Event(filename, "nomatch", "", FALSE, FALSE, FALSE, "", c.disk, c.disk)]
        ELSE IF PyIn(name, applied)
        THEN [raised |-> FALSE, c |-> c,
              ev |-> Event(filename, "skipped", "", FALSE, FALSE, FALSE, "", c.disk, c.disk)]
        ELSE LET r1 == executescript(c, sql)
                 r2 == execute(r1.c, InsertLedgerSql, <<name>>)
             IN  IF ~r1.ok
                 THEN LET c1 == with_exit(r1.c, FALSE)
                      IN  [raised |-> FALSE, c |-> c1,
                           ev |-> Event(filename, "failed", "script", TRUE, TRUE, FALSE,
                                        r1.err, c.disk, c1.disk)]
                 ELSE IF ~r2.ok
                 THEN LET c2 == with_exit(r2.c, FALSE)
                      IN  [raised |-> FALSE, c |-> c2,
                           ev |-> Event(filename, "failed", "insert", TRUE, TRUE, FALSE,
                                        r2.err, c.disk, c2.disk)]
                 ELSE LET c3 == with_exit(r2.c, TRUE)
                      IN  [raised |-> FALSE, c |-> c3,
                           ev |-> Event(filename, "applied", "", TRUE, TRUE, TRUE,
                                        "", c.disk, c3.disk)]

\* one turn of `for filename in sorted(os.listdir(migrations_dir))`
loop_body(c, applied, filename, sql) ==
    LET match == match_groups(filename)
        \* name = match.groups()
        name == match
    IN  IF match = PyNone
        THEN [raised |-> FALSE, c |-> c,
              ev |-> Event(filename, "nomatch", "", FALSE, FALSE, FALSE, "", c.disk, c.disk)]
        ELSE IF PyIn(name, applied)
        THEN [raised |-> FALSE, c |-> c,
              ev |-> Event(filename, "skipped", "", FALSE, FALSE, FALSE, "", c.disk, c.disk)]
        ELSE \* with open(file_path) as f: sql = f.read(); with self.conn: ...
             LET r1 == executescript(c, sql)
                 r2 == execute(r1.c, InsertLedgerSql, <<name>>)
             IN  IF ~r1.ok
                 THEN LET c1 == with_exit(r1.c, FALSE)
                      IN  [raised |-> TRUE, c |-> c1,
                           ev |-> Event(filename, "failed", "script", TRUE, TRUE, FALSE,
                                        r1.err, c.disk, c1.disk)]
                 ELSE IF ~r2.ok
                 THEN LET c2 == with_exit(r2.c, FALSE)
                      IN  [raised |-> TRUE, c |-> c2,
                           ev |-> Event(filename, "failed", "insert", TRUE, TRUE, FALSE,
                                        r2.err, c.disk, c2.disk)]
                 ELSE LET c3 == with_exit(r2.c, TRUE)
                      IN  [raised |-> FALSE, c |-> c3,
                           ev |-> Event(filename, "applied", "", TRUE, TRUE, TRUE,
                                        "", c.disk, c3.disk)]

\* the value a call that reaches the end of the function hands back: the
\* function has no return statement
migrations_retval(log) == PyNone

\* the record of a finished call
Finished(call, outcome, retval, err, after) ==
    [dir |-> call.dir, listing |-> call.listing, before |-> call.before,
     start |-> call.start, log |-> call.log,
     outcome |-> outcome, retval |-> retval, err |-> err, after |-> after]

\* the records kept after one more call has finished: those of the last two
\* calls, the directory listing of the last one only
Keep(h, rec) ==
    IF h = <<>> THEN <<rec>>
    ELSE <<[h[Len(h)] EXCEPT !.listing = <<>>], rec>>

\* entry of migrations(): create the ledger table in its own `with` block,
\* read the applied names, list and sort the directory
migrations_begin ==
    /\ pc = "idle"
    /\ ncalls < MaxCalls
    /\ ncalls' = ncalls + 1
    /\ LET r == execute(Conn(disk, view, inTx), create_migrations_table_sql, <<>>)
           c1 == with_exit(r.c, r.ok)
       IN  /\ disk' = c1.disk
           /\ view' = c1.view
           /\ inTx' = c1.inTx
           /\ applied_migrations' = query_names(c1.view)
           /\ \E listing \in Listings(DOMAIN dir) :
                 /\ todo' = sorted(listing)
                 /\ cur' = [dir |-> dir, listing |-> listing, before |-> disk,
                            start |-> c1.disk, log |-> <<>>]
    /\ pc' = "loop"
    /\ UNCHANGED <<dir, hist>>
    /\ UNCHANGED <<mgrVars, peerVars, winVars>>

\* one turn of the loop; an exception of the turn ends the call
migrations_step ==
    /\ pc = "loop"
    /\ todo # <<>>
    /\ LET filename == Head(todo)
           r == loop_body(Conn(disk, view, inTx), applied_migrations,
                          filename, dir[filename])
           call == [cur EXCEPT !.log = Append(@, r.ev)]
       IN  /\ disk' = r.c.disk
           /\ view' = r.c.view
           /\ inTx' = r.c.inTx
           /\ IF r.raised
              THEN /\ pc' = "idle"
                   /\ todo' = <<>>
                   /\ applied_migrations' = <<>>
                   /\ cur' = NoCall
                   /\ hist' = Keep(hist,
                         Finished(call, "raised", PyNone, r.ev.err, r.c.disk))
              ELSE /\ pc' = "loop"
                   /\ todo' = Tail(todo)
                   /\ cur' = call
                   /\ UNCHANGED <<applied_migrations, hist>>
    /\ UNCHANGED <<dir, ncalls>>
    /\ UNCHANGED <<mgrVars, peerVars, winVars>>

\* the loop is over: the call returns
migrations_return ==
    /\ pc = "loop"
    /\ todo = <<>>
    /\ pc' = "idle"
    /\ applied_migrations' = <<>>
    /\ cur' = NoCall
    /\ hist' = Keep(hist,
          Finished(cur, "returned", migrations_retval(cur.log), "", disk))
    /\ UNCHANGED <<dir, disk, view, inTx, todo, ncalls>>
    /\ UNCHANGED <<mgrVars, peerVars, winVars>>

(***************************************************************************)
(* Between two calls the developers change the directory: they add a       *)
(* migration file or correct one; the directory is never pruned.           *)
(***************************************************************************)
AddFile(f, sql) ==
    /\ pc = "idle"
    /\ f \notin DOMAIN dir
    /\ Cardinality(DOMAIN dir) < MaxFiles
    /\ dir' = [x \in DOMAIN dir \cup {f} |-> IF x = f THEN sql ELSE dir[x]]
    /\ UNCHANGED <<disk, view, inTx, pc, applied_migrations, todo, cur, hist, ncalls>>
    /\ UNCHANGED <<mgrVars, peerVars, winVars>>

EditFile(f, sql) ==
    /\ pc = "idle"
    /\ f \in DOMAIN dir
    /\ dir[f] # sql
    /\ dir' = [dir EXCEPT ![f] = sql]
    /\ UNCHANGED <<disk, view, inTx, pc, applied_migrations, todo, cur, hist, ncalls>>
    /\ UNCHANGED <<mgrVars, peerVars, winVars>>

ChangeDir ==
    \E f \in Files :
       \/ \E sql \in ScriptsOf(f) : AddFile(f, sql)
       \/ \E sql \in ScriptsOf(f) : EditFile(f, sql)

(***************************************************************************)
(* The manager's execute, commit and rollback, called between two calls of *)
(* migrations() with a statement that writes the ledger.                   *)
(***************************************************************************)
Execute(stmt, params) ==
    /\ pc = "idle"
    /\ Len(view.ledger) < MaxLedger
    /\ LET r == execute(Conn(disk, view, inTx), stmt, params)
       IN  /\ disk' = r.c.disk
           /\ view' = r.c.view
           /\ inTx' = r.c.inTx
    /\ UNCHANGED <<dir, pc, applied_migrations, todo, cur, hist, ncalls>>
    /\ UNCHANGED <<mgrVars, peerVars, winVars>>

Commit ==
    /\ pc = "idle"
    /\ inTx
    /\ LET c == conn_commit(Conn(disk, view, inTx))
       IN  /\ disk' = c.disk
           /\ view' = c.view
           /\ inTx' = c.inTx
    /\ UNCHANGED <<dir, pc, applied_migrations, todo, cur, hist, ncalls>>
    /\ UNCHANGED <<mgrVars, peerVars, winVars>>

Rollback ==
    /\ pc = "idle"
    /\ inTx
    /\ LET c == conn_rollback(Conn(disk, view, inTx))
       IN  /\ disk' = c.disk
           /\ view' = c.view
           /\ inTx' = c.inTx
    /\ UNCHANGED <<dir, pc, applied_migrations, todo, cur, hist, ncalls>>
    /\ UNCHANGED <<mgrVars, peerVars, winVars>>

Next ==
    \/ migrations_begin
    \/ migrations_step
    \/ migrations_return
    \/ ChangeDir

Spec == Init /\ [][Next]_vars

\* the names written to the ledger through execute()
LedgerNames == {PyStr(<<"i", "n", "i", "t">>), PyStr(<<"s", "e", "c", "o", "n", "d">>)}

NextApi ==
    \/ Next
    \/ \E n \in LedgerNames : Execute(InsertLedgerSql, <<n>>)
    \/ Commit
    \/ Rollback

\* migrations() on a manager that is also used through execute, commit and
\* rollback
SpecApi == Init /\ [][NextApi]_vars

TypeOK ==
    /\ dir \in Dirs
    /\ pc \in {"idle", "loop"}
    /\ inTx \in BOOLEAN
    /\ Len(hist) <= 2
    /\ ncalls \in 0..MaxCalls

(***************************************************************************)
(* The connection manager, DatabaseManager of src/src/db/manager.py: the   *)
(* same class without migrations().  A manager is self._conn, the handles  *)
(* opened so far and the state c of the database connection.               *)
(***************************************************************************)
\* number of connection handles one manager opens in one behaviour
MaxOpens == 3
\* number of rows the ledger table holds
MaxRows == 2
\* length of the parameter list given to executemany()
MaxParams == 2

Manager(h, hs, c) == [self_conn |-> h, handles |-> hs, c |-> c]

\* a handle as sqlite3.connect returns it: rows are tuples, foreign keys
\* are not enforced
NewHandle_plain == [open |-> TRUE, row_factory |-> "tuple", foreign_keys |-> FALSE]

\* sqlite3.connect, row_factory = sqlite3.Row, PRAGMA foreign_keys = ON
NewHandle == [open |-> TRUE, row_factory |-> "Row", foreign_keys |-> TRUE]

\* a connection that has just been opened sees the committed database
Opened(m) ==
    Manager(Len(m.handles) + 1, Append(m.handles, NewHandle),
            Conn(m.c.disk, m.c.disk, FALSE))

\* a property that connects on every access
conn_reopen(m) == Opened(m)

\* the property conn: connects if self._conn is None, returns self._conn
conn(m) == IF m.self_conn = 0 THEN Opened(m) ELSE m

\* a close() that closes the handle and keeps it in self._conn
close_keep(m) ==
    IF m.self_conn # 0
    THEN Manager(m.self_conn, [m.handles EXCEPT ![m.self_conn].open = FALSE],
                 Conn(m.c.disk, m.c.disk, FALSE))
    ELSE m

\* close(): closes the handle, which discards its open transaction, and
\* sets self._conn to None
close(m) ==
    IF m.self_conn # 0
    THEN Manager(0, [m.handles EXCEPT ![m.self_conn].open = FALSE],
                 Conn(m.c.disk, m.c.disk, FALSE))
    ELSE m

\* what a method hands back: the manager after it, whether it returned, the
\* exception if not, the value if so
Outcome(m, ok, err, result) == [m |-> m, ok |-> ok, err |-> err, result |-> result]

Cursor == [tag |-> "Cursor"]
PyBool(b) == [tag |-> "bool", val |-> b]
PyList(items) == [tag |-> "list", val |-> items]
\* dict(row)
PyDict(row) == [tag |-> "dict", val |-> row]

\* sqlite3 refuses every operation on a closed handle
Live(m) == m.handles[m.self_conn].open
ClosedError(m) == Outcome(m, FALSE, "ProgrammingError", PyNone)

\* execute(query, params): self.conn.execute
manager_execute(m, stmt, params) ==
    LET m1 == conn(m)
    IN  IF ~Live(m1) THEN ClosedError(m1)
        ELSE LET r == execute(m1.c, stmt, params)
             IN  Outcome([m1 EXCEPT !.c = r.c], r.ok, r.err,
                         IF r.ok THEN Cursor ELSE PyNone)

\* the statement run once for each parameter tuple of the list, first to
\* last; the run stops at the first tuple that raises and keeps the rows
\* of the tuples before it
RECURSIVE RunMany(_, _, _)
RunMany(db, stmt, params_list) ==
    IF params_list = <<>> THEN [ok |-> TRUE, err |-> "", db |-> db]
    ELSE IF ~Bindable(Head(params_list))
    THEN [ok |-> FALSE, err |-> "ProgrammingError", db |-> db]
    ELSE LET r == StmtResult(db, stmt, Head(params_list))
         IN  IF r.ok THEN RunMany(r.db, stmt, Tail(params_list))
             ELSE [ok |-> FALSE, err |-> r.err, db |-> db]

\* an executemany that runs the list last tuple first
conn_executemany_reversed(c, stmt, params_list) ==
    IF ~Prepared(c.view, stmt)
    THEN [ok |-> FALSE, err |-> "OperationalError", c |-> c]
    ELSE IF ~is_dml(stmt)
    THEN [ok |-> FALSE, err |-> "ProgrammingError", c |-> c]
    ELSE LET n == Len(params_list)
             r == RunMany(c.view, stmt, [i \in 1..n |-> params_list[n + 1 - i]])
         IN  [ok |-> r.ok, err |-> r.err, c |-> Conn(c.disk, r.db, TRUE)]

\* sqlite3's Connection.executemany: DML only, in one transaction that is
\* opened if none is open
conn_executemany(c, stmt, params_list) ==
    IF ~Prepared(c.view, stmt)
    THEN [ok |-> FALSE, err |-> "OperationalError", c |-> c]
    ELSE IF ~is_dml(stmt)
    THEN [ok |-> FALSE, err |-> "ProgrammingError", c |-> c]
    ELSE LET r == RunMany(c.view, stmt, params_list)
         IN  [ok |-> r.ok, err |-> r.err, c |-> Conn(c.disk, r.db, TRUE)]

\* executemany(query, params_list): self.conn.executemany
manager_executemany(m, stmt, params_list) ==
    LET m1 == conn(m)
    IN  IF ~Live(m1) THEN ClosedError(m1)
        ELSE LET r == conn_executemany(m1.c, stmt, params_list)
             IN  Outcome([m1 EXCEPT !.c = r.c], r.ok, r.err,
                         IF r.ok THEN Cursor ELSE PyNone)

\* executescript(script): self.conn.executescript
manager_executescript(m, script) ==
    LET m1 == conn(m)
    IN  IF ~Live(m1) THEN ClosedError(m1)
        ELSE LET r == executescript(m1.c, script)
             IN  Outcome([m1 EXCEPT !.c = r.c], r.ok, r.err,
                         IF r.ok THEN Cursor ELSE PyNone)

\* dict(row) of a row the handle fetched: a sqlite3.Row has keys, a plain
\* tuple is no mapping
Mapping(m) == m.handles[m.self_conn].row_factory = "Row"

\* query(query, params): [dict(row) for row in cursor.fetchall()]
query(m, stmt, params) ==
    LET r == manager_execute(m, stmt, params)
        rows == Rows(r.m.c.view, stmt, params)
    IN  IF ~r.ok THEN r
        ELSE IF rows # <<>> /\ ~Mapping(r.m)
        THEN Outcome(r.m, FALSE, "TypeError", PyNone)
        ELSE Outcome(r.m, TRUE, "",
                     PyList([i \in 1..Len(rows) |-> PyDict(rows[i])]))

\* a query_one that answers a query without rows with a row of defaults
query_one_default(m, stmt, params) ==
    LET r == manager_execute(m, stmt, params)
        rows == Rows(r.m.c.view, stmt, params)
    IN  IF ~r.ok THEN r
        ELSE IF rows = <<>>
        THEN Outcome(r.m, TRUE, "", PyDict([id |-> 0, name |-> PyStr(<<>>)]))
        ELSE Outcome(r.m, TRUE, "", PyDict(rows[1]))

\* query_one(query, params): cursor.fetchone(), None if there is no row
query_one(m, stmt, params) ==
    LET r == manager_execute(m, stmt, params)
        rows == Rows(r.m.c.view, stmt, params)
    IN  IF ~r.ok THEN r
        ELSE IF rows = <<>>
        THEN Outcome(r.m, TRUE, "", PyNone)
        ELSE IF ~Mapping(r.m)
        THEN Outcome(r.m, FALSE, "TypeError", PyNone)
        ELSE Outcome(r.m, TRUE, "", PyDict(rows[1]))

\* commit(): self.conn.commit()
commit(m) ==
    LET m1 == conn(m)
    IN  IF ~Live(m1) THEN ClosedError(m1)
        ELSE Outcome([m1 EXCEPT !.c = conn_commit(m1.c)], TRUE, "", PyNone)

\* rollback(): self.conn.rollback()
rollback(m) ==
    LET m1 == conn(m)
    IN  IF ~Live(m1) THEN ClosedError(m1)
        ELSE Outcome([m1 EXCEPT !.c = conn_rollback(m1.c)], TRUE, "", PyNone)

\* a table_exists that looks the name up in the committed database
table_exists_committed(m, table_name) ==
    LET m1 == conn(m)
    IN  IF ~Live(m1) THEN ClosedError(m1)
        ELSE Outcome(m1, TRUE, "", PyBool(table_name \in m1.c.disk.tables))

\* table_exists(table_name): query_one on sqlite_master, `result is not None`
table_exists(m, table_name) ==
    LET r == query_one(m, table_exists_query, <<PyStr(table_name)>>)
    IN  IF ~r.ok THEN r
        ELSE Outcome(r.m, TRUE, "", PyBool(r.result.tag # "NoneType"))

\* the attributes the class defines
Attributes ==
    {"db_path", "_conn", "logger", "conn", "close", "execute", "executemany",
     "executescript", "query", "query_one", "commit", "rollback",
     "table_exists"}

\* db_manager.<name>: AttributeError for a name the class does not define
getattr(m, name) ==
    IF name \in Attributes THEN Outcome(m, TRUE, "", [tag |-> "attribute"])
    ELSE Outcome(m, FALSE, "AttributeError", PyNone)

(***************************************************************************)
(* The calls of the connection manager.                                    *)
(***************************************************************************)
Self == Manager(self_conn, handles, Conn(disk, view, inTx))

\* a call that opens a handle needs room for one
Room == self_conn # 0 \/ Len(handles) < MaxOpens

\* the state after a call with outcome r
Returns(op, stmt, params, r) ==
    /\ self_conn' = r.m.self_conn
    /\ handles' = r.m.handles
    /\ disk' = r.m.c.disk
    /\ view' = r.m.c.view
    /\ inTx' = r.m.c.inTx
    /\ last' = Call(op, stmt, params, ~r.ok, r.err, r.result,
                    self_conn, Len(handles), closed, Conn(disk, view, inTx))
    /\ closed' = IF op = "close"
                 THEN (IF self_conn # 0 THEN self_conn ELSE closed)
                 ELSE IF op = "transaction" THEN closed ELSE 0
    /\ txStart' = IF r.m.c.inTx /\ ~inTx THEN disk ELSE txStart
    /\ atCommit' = IF op = "commit" /\ r.ok THEN r.m.c.disk ELSE atCommit
    /\ onlyExecute' = IF op = "commit" /\ r.ok THEN TRUE
                      ELSE IF op \in {"executemany", "executescript", "close"}
                           THEN FALSE ELSE onlyExecute
    /\ UNCHANGED <<dir, pc, applied_migrations, todo, cur, hist, ncalls, peerVars, winVars>>

\* db_manager.conn
call_conn ==
    /\ Room
    /\ LET m1 == conn(Self)
       IN  Returns("conn", NoStmt, <<>>,
                   Outcome(m1, TRUE, "", PyInt(m1.self_conn)))

\* db_manager.close()
call_close == Returns("close", NoStmt, <<>>, Outcome(close(Self), TRUE, "", PyNone))

\* the statements given to execute()
ExecuteMenu ==
    {[stmt |-> create_migrations_table_sql, params |-> <<>>],
     [stmt |-> CreateTable("t"), params |-> <<>>]}
    \cup {[stmt |-> InsertLedgerSql, params |-> <<n>>] : n \in LedgerNames \cup {PyNone}}

\* db_manager.execute(query, params)
call_execute(stmt, params) ==
    /\ Room
    /\ stmt.op = "insert_ledger" => Len(view.ledger) < MaxRows
    /\ Returns("execute", stmt, params, manager_execute(Self, stmt, params))

\* the parameter lists given to executemany()
ParamsLists ==
    UNION {[1..n -> {<<v>> : v \in LedgerNames \cup {PyNone}}] : n \in 0..MaxParams}

\* db_manager.executemany(query, params_list)
call_executemany(stmt, params_list) ==
    /\ Room
    /\ Len(view.ledger) + Len(params_list) <= MaxRows
    /\ Returns("executemany", stmt, params_list,
               manager_executemany(Self, stmt, params_list))

\* db_manager.executescript(script)
call_executescript(script) ==
    /\ Room
    /\ Returns("executescript", [op |-> "script", table |-> ""], script,
               manager_executescript(Self, script))

\* the queries given to query() and query_one()
QueryMenu ==
    {[stmt |-> SelectAll, params |-> <<>>]}
    \cup {[stmt |-> SelectByName, params |-> <<n>>] : n \in LedgerNames}

\* db_manager.query(query, params)
call_query(stmt, params) ==
    /\ Room
    /\ Returns("query", stmt, params, query(Self, stmt, params))

\* db_manager.query_one(query, params)
call_query_one(stmt, params) ==
    /\ Room
    /\ Returns("query_one", stmt, params, query_one(Self, stmt, params))

\* db_manager.commit()
call_commit == Room /\ Returns("commit", NoStmt, <<>>, commit(Self))

\* db_manager.rollback()
call_rollback == Room /\ Returns("rollback", NoStmt, <<>>, rollback(Self))

\* the table names asked for
TableNames == {LedgerTable, "t", "u"}

\* db_manager.table_exists(table_name)
call_table_exists(table_name) ==
    /\ Room
    /\ Returns("table_exists", table_exists_query, <<PyStr(table_name)>>,
               table_exists(Self, table_name))

\* the ways the block of a `with` statement ends
Blocks == {"normal", "raises"}

\* with db_manager.transaction(): INSERT a ledger row; the block then ends
\* normally or raises ValueError.  The context expression is evaluated
\* first, and the block is entered only if that yields a context manager.
call_transaction(block, name) ==
    LET r == getattr(Self, "transaction")
    IN  /\ ~r.ok
        /\ Returns("transaction", [op |-> block, table |-> LedgerTable], <<name>>, r)

NextConn ==
    \/ call_conn
    \/ call_close
    \/ \E e \in ExecuteMenu : call_execute(e.stmt, e.params)
    \/ \E l \in ParamsLists : call_executemany(InsertLedgerSql, l)
    \/ \E s \in {S_init, S_bad} : call_executescript(s)
    \/ \E q \in QueryMenu : call_query(q.stmt, q.params)
    \/ \E q \in QueryMenu : call_query_one(q.stmt, q.params)
    \/ call_commit
    \/ call_rollback
    \/ \E x \in TableNames : call_table_exists(x)
    \/ \E b \in Blocks : \E n \in LedgerNames : call_transaction(b, n)

\* a manager of src/src/db/manager.py used through its public methods
InitConn == Init /\ DOMAIN dir = {}

SpecConn == InitConn /\ [][NextConn]_vars

(***************************************************************************)
(* Vocabulary of the properties.                                           *)
(***************************************************************************)
\* the calls on record: the finished ones and the running one
Calls == {hist[i] : i \in DOMAIN hist} \cup (IF pc = "loop" THEN {cur} ELSE {})

\* the files of the model that are migration files by their names
Migrations == {F_init, F_second, F_dup}
\* the files of the model that are not
NotMigrations == {F_upper, F_readme}

\* the name part of the files of the model, as Python strings
NameStr(f) ==
    CASE f \in {F_init, F_dup} -> PyStr(<<"i", "n", "i", "t">>)
      [] f = F_second -> PyStr(<<"s", "e", "c", "o", "n", "d">>)
      [] f = F_upper -> PyStr(<<"I", "n", "i", "t">>)
      [] f = F_readme -> PyStr(<<>>)

\* the ledger rows that record file f
RowsFor(ledger, f) ==
    {i \in DOMAIN ledger :
        \/ PyEq(ledger[i].name, NameStr(f))
        \/ PyEq(ledger[i].name, PyTuple(<<NameStr(f)>>))}

\* the migration files of a directory no row of the ledger records
Unrecorded(d, ledger) ==
    {f \in DOMAIN d \cap Migrations : RowsFor(ledger, f) = {}}

\* the events of a log that ran a script
RanAt(log) == {j \in DOMAIN log : log[j].ran}
AppliedAt(log) == {j \in DOMAIN log : log[j].kind = "applied"}

(***************************************************************************)
(* C1. Two calls of migrations() in a row on an unchanged directory return *)
(* N and then 0, where N is the number of migration files not yet          *)
(* recorded, and the second call writes nothing: the database after it is  *)
(* the database after the first.                                           *)
(***************************************************************************)
ClaimC1 ==
    \A i \in DOMAIN hist :
       (i + 1 \in DOMAIN hist /\ hist[i + 1].dir = hist[i].dir) =>
          /\ hist[i].outcome = "returned"
          /\ hist[i].retval =
                PyInt(Cardinality(Unrecorded(hist[i].dir, hist[i].start.ledger)))
          /\ hist[i + 1].outcome = "returned"
          /\ hist[i + 1].retval = PyInt(0)
          /\ hist[i + 1].after = hist[i].after

(***************************************************************************)
(* C5. migrations() returns the number of migration files whose script and *)
(* ledger row were committed during the call; it returns 0 when every      *)
(* migration file was already recorded.                                    *)
(***************************************************************************)
ClaimC5 ==
    \A i \in DOMAIN hist :
       hist[i].outcome = "returned" =>
          hist[i].retval = PyInt(Cardinality(AppliedAt(hist[i].log)))

(***************************************************************************)
(* C2. Whatever order the directory listing has, the scripts run in        *)
(* strictly ascending prefix order: when the script of a file runs, no     *)
(* script of a file with a larger or equal prefix has run in the call, and *)
(* every migration file of the directory with a smaller prefix has already *)
(* had its turn in the call.                                               *)
(***************************************************************************)
TheoremC2 ==
    \A c \in Calls : \A j \in RanAt(c.log) :
       /\ \A k \in RanAt(c.log) :
             k < j => StrLess(PrefixOf(c.log[k].file), PrefixOf(c.log[j].file))
       /\ \A g \in DOMAIN c.dir \cap Migrations :
             StrLess(PrefixOf(g), PrefixOf(c.log[j].file)) =>
                \E k \in 1..(j - 1) : c.log[k].file = g

\* a script has run in a call whose listing gave a migration file with a
\* larger prefix before one with a smaller prefix
WitnessC2 ==
    \E i \in DOMAIN hist :
       /\ RanAt(hist[i].log) # {}
       /\ \E a, b \in DOMAIN hist[i].listing :
             /\ a < b
             /\ {hist[i].listing[a], hist[i].listing[b]} \subseteq Migrations
             /\ StrLess(PrefixOf(hist[i].listing[b]), PrefixOf(hist[i].listing[a]))

(***************************************************************************)
(* C3. When the script of a migration raises partway, the ledger holds no  *)
(* row for that migration once the call is over.                           *)
(***************************************************************************)
TheoremC3 ==
    \A i \in DOMAIN hist : \A j \in DOMAIN hist[i].log :
       (hist[i].log[j].kind = "failed" /\ hist[i].log[j].step = "script") =>
          RowsFor(hist[i].after.ledger, hist[i].log[j].file) = {}

\* a call is over in which a script raised after some of its statements had
\* taken effect
WitnessC3 ==
    \E i \in DOMAIN hist : \E j \in DOMAIN hist[i].log :
       /\ hist[i].log[j].kind = "failed"
       /\ hist[i].log[j].step = "script"
       /\ hist[i].log[j].after # hist[i].log[j].before

(***************************************************************************)
(* C4. A migration is all-or-nothing: when a step of it raises, the        *)
(* committed database is as it was before the migration began.             *)
(***************************************************************************)
ClaimC4 ==
    \A c \in Calls : \A j \in DOMAIN c.log :
       c.log[j].kind = "failed" => c.log[j].after = c.log[j].before

(***************************************************************************)
(* C6. A migration file whose name is in the ledger when a call starts is  *)
(* skipped by that call: its script is not executed and no ledger row is   *)
(* inserted for it.                                                        *)
(***************************************************************************)
ClaimC6 ==
    \A c \in Calls : \A j \in DOMAIN c.log :
       (c.log[j].file \in Migrations /\ RowsFor(c.start.ledger, c.log[j].file) # {}) =>
          /\ c.log[j].kind = "skipped"
          /\ ~c.log[j].read
          /\ ~c.log[j].ran
          /\ ~c.log[j].recorded

(***************************************************************************)
(* C7. With one runner, whatever the directory holds and however often     *)
(* migrations() is called, no two rows of the ledger have the same name.   *)
(***************************************************************************)
NoDuplicate(ledger) ==
    \A a, b \in DOMAIN ledger : a # b => ~PyEq(ledger[a].name, ledger[b].name)

TheoremC8 ==
    \A c \in Calls : \A j \in DOMAIN c.log :
       c.log[j].file \in NotMigrations =>
          /\ c.log[j].kind = "nomatch"
          /\ ~c.log[j].read
          /\ ~c.log[j].ran
          /\ ~c.log[j].recorded
          /\ c.log[j].after = c.log[j].before
          /\ RowsFor(c.log[j].after.ledger, c.log[j].file) = {}

\* a call passed over an entry that does not match and went on to the next
\* entry; another call, on a directory of such entries only, returned
WitnessC8 ==
    /\ \E i \in DOMAIN hist : \E j \in DOMAIN hist[i].log :
          /\ hist[i].log[j].file \in NotMigrations
          /\ j < Len(hist[i].log)
    /\ \E i \in DOMAIN hist :
          /\ hist[i].outcome = "returned"
          /\ DOMAIN hist[i].dir # {}
          /\ DOMAIN hist[i].dir \subseteq NotMigrations

(***************************************************************************)
(* C9. After a call that completes without error every migration file of   *)
(* the directory is in the ledger exactly once, the rows in id order       *)
(* following the prefix order; and when one file with a larger prefix and   *)
(* a sound script is added to such a directory, the next call applies that *)
(* file only and returns 1.                                                *)
(***************************************************************************)
\* the ledger records every migration file of d once, in prefix order
FullyApplied(d, ledger) ==
    /\ \A f \in DOMAIN d \cap Migrations : Cardinality(RowsFor(ledger, f)) = 1
    /\ \A f, g \in DOMAIN d \cap Migrations :
          StrLess(PrefixOf(f), PrefixOf(g)) =>
             \A a \in RowsFor(ledger, f) : \E b \in RowsFor(ledger, g) : a < b

\* directory e is directory d with the one file f added
Extends(e, d, f) ==
    /\ f \notin DOMAIN d
    /\ DOMAIN e = DOMAIN d \cup {f}
    /\ \A g \in DOMAIN d : e[g] = d[g]

ClaimC9 ==
    \A i \in DOMAIN hist :
       /\ hist[i].outcome = "returned" => FullyApplied(hist[i].dir, hist[i].after.ledger)
       /\ \A f \in Migrations :
             ( /\ i + 1 \in DOMAIN hist
               /\ hist[i].outcome = "returned"
               /\ Extends(hist[i + 1].dir, hist[i].dir, f)
               /\ \A g \in DOMAIN hist[i].dir \cap Migrations :
                     StrLess(PrefixOf(g), PrefixOf(f))
               /\ RunScript(hist[i + 1].start, hist[i + 1].dir[f]).ok )
             => /\ hist[i + 1].outcome = "returned"
                /\ hist[i + 1].retval = PyInt(1)
                /\ {hist[i + 1].log[j].file : j \in AppliedAt(hist[i + 1].log)} = {f}
                /\ FullyApplied(hist[i + 1].dir, hist[i + 1].after.ledger)

(***************************************************************************)
(* C10. A migration whose script failed in one call is not recorded; when  *)
(* the failing statement is taken out of the file, the next call runs the  *)
(* file again from its start and applies it.                               *)
(***************************************************************************)
Sound(stmt) == stmt.op # "violate"
\* the script without the statements that violate a constraint
Corrected(sql) == SelectSeq(sql, Sound)

ClaimC10 ==
    \A i \in DOMAIN hist :
       ( /\ i + 1 \in DOMAIN hist
         /\ hist[i].outcome = "raised"
         /\ hist[i].log[Len(hist[i].log)].step = "script"
         /\ hist[i].err = "IntegrityError"
         /\ LET f == hist[i].log[Len(hist[i].log)].file
            IN  hist[i + 1].dir = [hist[i].dir EXCEPT ![f] = Corrected(@)] )
       => LET f == hist[i].log[Len(hist[i].log)].file
          IN  /\ RowsFor(hist[i].after.ledger, f) = {}
              /\ \E j \in DOMAIN hist[i + 1].log :
                    /\ hist[i + 1].log[j].file = f
                    /\ hist[i + 1].log[j].ran
                    /\ hist[i + 1].log[j].kind = "applied"

(***************************************************************************)
(* C11. When the script or the ledger insert of a migration raises, the    *)
(* call ends there with that error: the failed file is the last one the    *)
(* call touched, it was tried once, and no call that returns has passed    *)
(* over anything but entries that do not match or are already recorded.    *)
(***************************************************************************)
TheoremC11 ==
    /\ pc = "loop" => \A j \in DOMAIN cur.log : cur.log[j].kind # "failed"
    /\ \A i \in DOMAIN hist : \A j \in DOMAIN hist[i].log :
          LET e == hist[i].log[j]
          IN  /\ e.kind = "failed" =>
                    /\ hist[i].outcome = "raised"
                    /\ hist[i].err = e.err
                    /\ e.err # ""
                    /\ j = Len(hist[i].log)
                    /\ \A k \in DOMAIN hist[i].log : k # j => hist[i].log[k].file # e.file
              /\ e.kind = "nomatch" => e.file \in NotMigrations
              /\ e.kind = "skipped" => RowsFor(hist[i].start.ledger, e.file) # {}
    /\ \A i \in DOMAIN hist :
          hist[i].outcome = "returned" =>
             {hist[i].log[j].file : j \in DOMAIN hist[i].log} = DOMAIN hist[i].dir

\* one call ended at a ledger insert that raised, leaving a later migration
\* file of the directory untouched; another ended at a script that raised
WitnessC11 ==
    /\ \E i \in DOMAIN hist :
          /\ hist[i].outcome = "raised"
          /\ hist[i].log[Len(hist[i].log)].step = "insert"
          /\ \E g \in DOMAIN hist[i].dir \cap Migrations :
                \A j \in DOMAIN hist[i].log : hist[i].log[j].file # g
    /\ \E i \in DOMAIN hist :
          /\ hist[i].outcome = "raised"
          /\ hist[i].log[Len(hist[i].log)].step = "script"

(***************************************************************************)
(* Vocabulary of the properties of the connection manager.                 *)
(***************************************************************************)
\* the handles that are open
LiveHandles == {i \in DOMAIN handles : handles[i].open}

\* the methods that go through the property conn
UsesConn ==
    {"conn", "execute", "executemany", "executescript", "query", "query_one",
     "commit", "rollback", "table_exists"}

(***************************************************************************)
(* C12. A manager holds at most one live handle at any time.  The handle   *)
(* is opened only by an access of conn that finds none; every other access *)
(* of conn before close() uses the handle already held and opens nothing,  *)
(* whatever calls were made in between.                                    *)
(***************************************************************************)
TheoremC12 ==
    /\ Cardinality(LiveHandles) <= 1
    /\ LiveHandles = IF self_conn = 0 THEN {} ELSE {self_conn}
    /\ last.op \in UsesConn =>
          /\ self_conn # 0
          /\ last.h0 # 0 => self_conn = last.h0 /\ Len(handles) = last.n0
          /\ last.h0 = 0 => Len(handles) = last.n0 + 1
          /\ last.op = "conn" => last.result = PyInt(self_conn)
    /\ last.op \in {"close", "transaction"} => Len(handles) = last.n0

\* the handle is held across a write, a query, a commit or a rollback, and
\* conn has just returned it again
WitnessC12 ==
    /\ last.op = "conn"
    /\ last.h0 # 0
    /\ last.result = PyInt(last.h0)
    /\ last.before.view.ledger # <<>>
    /\ Len(handles) = 2

(***************************************************************************)
(* C13. The first access of conn after close() does not fail on the closed *)
(* handle: it opens a new handle, which is another object than the one     *)
(* that was closed and is live, in every open/close cycle.                 *)
(***************************************************************************)
TheoremC13 ==
    (last.op \in UsesConn /\ last.closed # 0) =>
       /\ last.h0 = 0
       /\ self_conn # last.closed
       /\ self_conn = last.n0 + 1
       /\ Len(handles) = last.n0 + 1
       /\ handles[self_conn].open
       /\ \A i \in 1..last.n0 : ~handles[i].open
       /\ last.err # "ProgrammingError"
       /\ last.op = "conn" => ~last.raised /\ last.result = PyInt(self_conn)

\* conn is accessed right after the close() of a second cycle and returns a
\* third handle
WitnessC13 ==
    /\ last.op = "conn"
    /\ last.closed = 2
    /\ last.result = PyInt(3)
    /\ handles[3].open

(***************************************************************************)
(* C14. `with db_manager.transaction():` around an INSERT, with a block    *)
(* that ends normally, raises nothing and commits the row: the row is in   *)
(* the committed database after the block.                                 *)
(***************************************************************************)
ClaimC14 ==
    (last.op = "transaction" /\ last.stmt.op = "normal") =>
       /\ ~last.raised
       /\ LedgerTable \in last.before.view.tables =>
             /\ ~inTx
             /\ Len(disk.ledger) = Len(last.before.view.ledger) + 1
             /\ PyEq(disk.ledger[Len(disk.ledger)].name, last.params[1])

(***************************************************************************)
(* C15. `with db_manager.transaction():` around an INSERT, with a block    *)
(* that then raises ValueError, hands that ValueError to the caller, rolls *)
(* the INSERT back and leaves the committed rows as they were.             *)
(***************************************************************************)
ClaimC15 ==
    (last.op = "transaction" /\ last.stmt.op = "raises") =>
       /\ last.raised
       /\ last.err = "ValueError"
       /\ disk = last.before.disk
       /\ view.ledger = last.before.view.ledger

(***************************************************************************)
(* C16, as stated.  rollback() discards exactly what execute() has changed *)
(* since the last commit(): when only execute() has written since then,    *)
(* the database after rollback() is the database that commit() left (the   *)
(* empty database if commit() was never called).                           *)
(***************************************************************************)
ClaimC16 ==
    (last.op = "rollback" /\ onlyExecute) =>
       /\ view = atCommit
       /\ disk = atCommit

\* a is an initial part of b
IsPrefix(a, b) == Len(a) <= Len(b) /\ SubSeq(b, 1, Len(a)) = a

(***************************************************************************)
(* C16, amended.  rollback() discards exactly the changes of the           *)
(* transaction that is open on the live handle, that is, what execute()    *)
(* and executemany() have written since that transaction began, and leaves *)
(* the committed database unchanged; without an open transaction it        *)
(* changes nothing.  commit() makes the changes of the open transaction    *)
(* part of the committed database, and what commit() left is never removed *)
(* by a later rollback().                                                  *)
(***************************************************************************)
TheoremC16 ==
    /\ last.op = "rollback" =>
          /\ ~last.raised
          /\ ~inTx
          /\ disk = last.before.disk
          /\ view = disk
          /\ (last.h0 # 0 /\ last.before.inTx) => view = txStart
          /\ (last.h0 # 0 /\ ~last.before.inTx) => view = last.before.view
    /\ last.op = "commit" =>
          /\ ~last.raised
          /\ ~inTx
          /\ last.h0 # 0 => disk = last.before.view
          /\ view = disk
          /\ atCommit = disk
    /\ IsPrefix(atCommit.ledger, disk.ledger)
    /\ atCommit.tables \subseteq disk.tables

\* a row is committed, another is written and rolled back: the first one
\* stays, the second is gone
WitnessC16 ==
    /\ last.op = "rollback"
    /\ last.before.inTx
    /\ atCommit.ledger # <<>>
    /\ Len(last.before.view.ledger) = Len(atCommit.ledger) + 1
    /\ view.ledger = atCommit.ledger

(***************************************************************************)
(* C17. table_exists(name) never raises; it returns True exactly when the  *)
(* connection sees a table of that name, so False for every name without a *)
(* table, and True for a table created through this connection even while  *)
(* its creation is not committed.                                          *)
(***************************************************************************)
TheoremC17 ==
    last.op = "table_exists" =>
       LET table_name == last.params[1].val
       IN  /\ ~last.raised
           /\ last.result.tag = "bool"
           /\ last.result.val = (table_name \in last.before.view.tables)
           /\ table_name = "u" => last.result.val = FALSE
           /\ table_name \in view.tables \ disk.tables => last.result.val = TRUE

\* table t was created in a transaction that is still open, the ledger table
\* is committed: table_exists("t") is True, and the transaction is still open
WitnessC17 ==
    /\ last.op = "table_exists"
    /\ last.params = <<PyStr("t")>>
    /\ "t" \in last.before.view.tables \ last.before.disk.tables
    /\ last.result = PyBool(TRUE)
    /\ inTx

\* the ledger rows a query of the model matches
Matching(ledger, stmt, params) ==
    {i \in DOMAIN ledger : stmt.where => ledger[i].name = params[1]}

(***************************************************************************)
(* C18. A query on an existing table that matches no row raises nothing:   *)
(* query_one returns None and query returns the empty list.  (With rows    *)
(* matching, query returns as many dictionaries and query_one returns a    *)
(* dictionary.)                                                            *)
(***************************************************************************)
TheoremC18 ==
    (last.op \in {"query", "query_one"} /\ LedgerTable \in last.before.view.tables) =>
       LET n == Cardinality(Matching(last.before.view.ledger, last.stmt, last.params))
       IN  /\ ~last.raised
           /\ last.op = "query" =>
                 /\ last.result.tag = "list"
                 /\ Len(last.result.val) = n
                 /\ n = 0 => last.result.val = <<>>
           /\ last.op = "query_one" =>
                 /\ n = 0 => last.result.tag = "NoneType"
                 /\ n > 0 => last.result.tag = "dict"

\* the table holds a row and the query asks for another name: query_one
\* returns None
WitnessC18 ==
    /\ last.op = "query_one"
    /\ last.stmt = SelectByName
    /\ last.before.view.ledger # <<>>
    /\ Matching(last.before.view.ledger, last.stmt, last.params) = {}
    /\ ~last.raised
    /\ last.result.tag = "NoneType"

\* the tuples of a list that come before its first NULL name
Before(params_list) ==
    {k \in DOMAIN params_list :
        \A j \in 1..k : params_list[j][1].tag # "NoneType"}

(***************************************************************************)
(* C19. executemany(sql, params_list) with an INSERT into the ledger       *)
(* table, whose id is an auto-increment key, runs the INSERT once for each *)
(* tuple of the list, first to last: the call adds as many rows as the     *)
(* list has tuples, after the rows that were there, and the k-th added row *)
(* has the k-th id handed out and the name of the k-th tuple.  (A call     *)
(* that raises has run the tuples before the failing one, in order.)       *)
(***************************************************************************)
TheoremC19 ==
    (last.op = "executemany" /\ LedgerTable \in last.before.view.tables) =>
       LET old == last.before.view.ledger
           params_list == last.params
           added == IF last.raised THEN Before(params_list) ELSE DOMAIN params_list
       IN  /\ last.raised <=> Before(params_list) # DOMAIN params_list
           /\ IsPrefix(old, view.ledger)
           /\ Len(view.ledger) = Len(old) + Cardinality(added)
           /\ \A k \in added :
                 /\ view.ledger[Len(old) + k].name = params_list[k][1]
                 /\ view.ledger[Len(old) + k].id = NextId(old) + k - 1

\* two tuples with different names: the first row added carries the first
\* name, the second the second
WitnessC19 ==
    /\ last.op = "executemany"
    /\ ~last.raised
    /\ Len(last.params) = 2
    /\ last.params[1] # last.params[2]
    /\ Len(view.ledger) = Len(last.before.view.ledger) + 2
    /\ view.ledger[Len(view.ledger)].name = last.params[2][1]

(***************************************************************************)
(* Two runners.  A second process calls migrations() once, through its own *)
(* DatabaseManager, on the same database file and directory.  Each step of *)
(* a runner leaves no transaction open, so the steps of the two runners    *)
(* interleave and each runner sees what the other has committed.           *)
(***************************************************************************)
\* the second runner creates the ledger table and reads the ledger
peer_begin ==
    /\ pc2 = "idle"
    /\ ~inTx
    /\ LET r == execute(Conn(disk, disk, FALSE), create_migrations_table_sql, <<>>)
           c1 == with_exit(r.c, r.ok)
       IN  /\ disk' = c1.disk
           /\ view' = c1.disk
           /\ applied2' = query_names(c1.view)
           /\ \E listing \in Listings(DOMAIN dir) :
                 /\ todo2' = sorted(listing)
                 /\ cur2' = [dir |-> dir, listing |-> listing, before |-> disk,
                             start |-> c1.disk, log |-> <<>>]
    /\ pc2' = "loop"
    /\ overlap' = IF pc = "loop" /\ cur.log = <<>> THEN ncalls ELSE 0
    /\ UNCHANGED <<dir, inTx, pc, applied_migrations, todo, cur, hist, ncalls, mgrVars, winVars>>

\* one turn of the second runner's loop
peer_step ==
    /\ pc2 = "loop"
    /\ todo2 # <<>>
    /\ ~inTx
    /\ LET filename == Head(todo2)
           r == loop_body(Conn(disk, disk, FALSE), applied2, filename, dir[filename])
           call == [cur2 EXCEPT !.log = Append(@, r.ev)]
       IN  /\ disk' = r.c.disk
           /\ view' = r.c.disk
           /\ IF r.raised
              THEN /\ pc2' = "done"
                   /\ todo2' = <<>>
                   /\ applied2' = <<>>
                   /\ cur2' = Finished(call, "raised", PyNone, r.ev.err, r.c.disk)
              ELSE /\ pc2' = "loop"
                   /\ todo2' = Tail(todo2)
                   /\ cur2' = call
                   /\ UNCHANGED applied2
    /\ UNCHANGED <<dir, inTx, pc, applied_migrations, todo, cur, hist, ncalls,
                   mgrVars, overlap, winVars>>

\* the second runner's loop is over
peer_return ==
    /\ pc2 = "loop"
    /\ todo2 = <<>>
    /\ pc2' = "done"
    /\ applied2' = <<>>
    /\ cur2' = Finished(cur2, "returned", migrations_retval(cur2.log), "", disk)
    /\ UNCHANGED <<dir, disk, view, inTx, pc, applied_migrations, todo, cur, hist,
                   ncalls, mgrVars, todo2, overlap, winVars>>

NextTwo ==
    \/ migrations_begin
    \/ migrations_step
    \/ migrations_return
    \/ peer_begin
    \/ peer_step
    \/ peer_return

SpecTwo == Init /\ [][NextTwo]_vars

(***************************************************************************)
(* C20. When the two runners have both read the ledger before either has   *)
(* taken a turn of its loop, every migration file that was unrecorded and  *)
(* whose script the first runner executed to its end has its script        *)
(* executed by the second runner too, and its name is in the ledger twice  *)
(* once both calls are over.                                               *)
(***************************************************************************)
ClaimC20 ==
    (pc = "idle" /\ pc2 = "done" /\ overlap # 0 /\ overlap = ncalls) =>
       LET a == hist[Len(hist)]
           b == cur2
       IN  \A j \in RanAt(a.log) :
              LET f == a.log[j].file
              IN  (RowsFor(a.start.ledger, f) = {} /\ a.log[j].step # "script") =>
                     /\ \E k \in RanAt(b.log) : b.log[k].file = f
                     /\ Cardinality(RowsFor(disk.ledger, f)) = 2

(***************************************************************************)
(* C21. Every migrations() call has the ledger table in the committed      *)
(* database before it lists the directory and before every turn of its     *)
(* loop, whether the table was there or not when the call began; the table *)
(* is in the committed database after the call, also when the call raised  *)
(* at its first migration file.                                            *)
(***************************************************************************)
TheoremC21 ==
    /\ pc = "loop" => LedgerTable \in disk.tables
    /\ \A c \in Calls :
          /\ LedgerTable \in c.start.tables
          /\ \A j \in DOMAIN c.log :
                /\ LedgerTable \in c.log[j].before.tables
                /\ LedgerTable \in c.log[j].after.tables
    /\ \A i \in DOMAIN hist : LedgerTable \in hist[i].after.tables

\* a call on a database without the ledger table raised at its first file:
\* the table is there after the call
WitnessC21 ==
    \E i \in DOMAIN hist :
       /\ LedgerTable \notin hist[i].before.tables
       /\ hist[i].outcome = "raised"
       /\ Len(hist[i].log) = 1
       /\ hist[i].log[1].kind = "failed"
       /\ LedgerTable \in hist[i].after.tables

\* the committed databases a call has seen, first to last
Snapshots(c) ==
    <<c.before, c.start>>
    \o [k \in 1..(2 * Len(c.log)) |->
          IF k % 2 = 1 THEN c.log[(k + 1) \div 2].before
          ELSE c.log[k \div 2].after]

(***************************************************************************)
(* C22. Under migrations() the committed ledger only grows: from one point *)
(* of a call to the next (its beginning, the reading of the ledger, before *)
(* and after each turn of the loop, its end) and from one call to the      *)
(* next, the committed ledger rows stay, with their ids and names, and new *)
(* rows come after them.                                                   *)
(***************************************************************************)
TheoremC22 ==
    /\ \A c \in Calls :
          LET snaps == Snapshots(c)
          IN  \A k \in 1..(Len(snaps) - 1) :
                 IsPrefix(snaps[k].ledger, snaps[k + 1].ledger)
    /\ \A i \in DOMAIN hist :
          LET snaps == Snapshots(hist[i])
          IN  /\ IsPrefix(snaps[Len(snaps)].ledger, hist[i].after.ledger)
              /\ i + 1 \in DOMAIN hist =>
                    IsPrefix(hist[i].after.ledger, hist[i + 1].before.ledger)
    /\ pc = "loop" => IsPrefix(Snapshots(cur)[Len(Snapshots(cur))].ledger, disk.ledger)
    /\ (pc = "idle" /\ hist # <<>>) =>
          IsPrefix(hist[Len(hist)].after.ledger, disk.ledger)

\* a call began with a committed ledger row, ran a script and raised: the
\* row is still there
WitnessC22 ==
    \E i \in DOMAIN hist :
       /\ hist[i].before.ledger # <<>>
       /\ hist[i].outcome = "raised"
       /\ RanAt(hist[i].log) # {}
       /\ hist[i].after.ledger = hist[i].before.ledger

(***************************************************************************)
(* The recording window, WhisperWindow of src/src/window.py.  A window is  *)
(* self.pipeline, self.current_recording_path, the pipeline objects made   *)
(* so far with their GStreamer state and file, the recording files on      *)
(* disk, the visible page, the open dialogs and whether it is destroyed.   *)
(***************************************************************************)
\* number of recordings started in one behaviour
MaxRecordings == 2
\* number of confirmation dialogs open at one time
MaxDialogs == 2

Window(p, path, ps, fs, pg, ds, gone) ==
    [pipeline |-> p, current_recording_path |-> path, pipelines |-> ps,
     files |-> fs, page |-> pg, dialogs |-> ds, destroyed |-> gone]

\* pipeline.set_state(state): the filesink of a pipeline that leaves NULL
\* opens its file
set_state(w, state) ==
    [w EXCEPT !.pipelines[w.pipeline].state = state,
              !.files = IF state = "NULL" THEN @
                        ELSE @ \cup {w.pipelines[w.pipeline].path}]

\* _create_recording_pipeline: a file name from a new uuid4, a new pipeline
\* whose filesink writes there
create_recording_pipeline(w) ==
    LET id == Len(w.pipelines) + 1
    IN  [w EXCEPT !.current_recording_path = id,
                  !.pipelines = Append(@, [state |-> "NULL", path |-> id]),
                  !.pipeline = id]

\* _start_recording
start_recording(w) ==
    LET w1 == IF w.pipeline = 0 THEN create_recording_pipeline(w) ELSE w
    IN  IF w1.pipeline # 0 THEN set_state(w1, "PLAYING") ELSE w1

\* _pause_recording
pause_recording(w) == IF w.pipeline # 0 THEN set_state(w, "PAUSED") ELSE w

\* _resume_recording
resume_recording(w) == IF w.pipeline # 0 THEN set_state(w, "PLAYING") ELSE w

\* a stop that also deletes the recording file
stop_recording_unlink(w) ==
    IF w.pipeline # 0
    THEN [set_state(w, "NULL") EXCEPT !.files = @ \ {w.current_recording_path}]
    ELSE w

\* _stop_recording
stop_recording(w) == IF w.pipeline # 0 THEN set_state(w, "NULL") ELSE w

\* a discard that keeps the pipeline object
discard_recording_keep(w) ==
    LET w1 == stop_recording(w)
        w2 == IF w1.current_recording_path # 0
                 /\ w1.current_recording_path \in w1.files
              THEN [w1 EXCEPT !.files = @ \ {w1.current_recording_path}]
              ELSE w1
    IN  [w2 EXCEPT !.current_recording_path = 0]

\* _discard_recording
discard_recording(w) ==
    LET w1 == stop_recording(w)
        w2 == IF w1.current_recording_path # 0
                 /\ w1.current_recording_path \in w1.files
              THEN [w1 EXCEPT !.files = @ \ {w1.current_recording_path}]
              ELSE w1
    IN  [w2 EXCEPT !.current_recording_path = 0, !.pipeline = 0]

\* dialog.present()
present(w, dialog) == [w EXCEPT !.dialogs = Append(@, dialog)]

\* _on_nav_view_popped, the handler of nav_view's "popped" signal, which is
\* emitted once the page has left the stack
on_nav_view_popped(w, tag) ==
    IF tag = "recording" /\ w.pipeline # 0
    THEN [w |-> present(pause_recording(w), "nav"), returned |-> TRUE]
    ELSE [w |-> w, returned |-> FALSE]

\* self.nav_view.pop(): nothing on the home page; from the recording page
\* the home page shows again and "popped" is emitted
nav_view_pop(w) ==
    IF w.page = "recording"
    THEN on_nav_view_popped([w EXCEPT !.page = "home"], "recording").w
    ELSE w

\* _on_record_clicked
on_record_clicked(w) == start_recording([w EXCEPT !.page = "recording"])

\* _on_stop_clicked
on_stop_clicked(w) == nav_view_pop([stop_recording(w) EXCEPT !.pipeline = 0])

\* _on_discard_clicked
on_discard_clicked(w) == present(pause_recording(w), "discard")

\* _on_discard_dialog_response
on_discard_dialog_response(w, response) ==
    IF response = "discard" THEN nav_view_pop(discard_recording(w))
    ELSE resume_recording(w)

\* _on_nav_view_dialog_response
on_nav_view_dialog_response(w, response) ==
    IF response = "discard" THEN nav_view_pop(discard_recording(w))
    ELSE IF response = "save"
    THEN nav_view_pop([stop_recording(w) EXCEPT !.pipeline = 0])
    ELSE resume_recording(w)

\* self.destroy(): the window goes and its dialogs with it
destroy(w) == [w EXCEPT !.destroyed = TRUE, !.dialogs = <<>>]

\* a close-request handler that never blocks
on_close_request_open(w) == [w |-> w, returned |-> FALSE]

\* _on_close_request
on_close_request(w) ==
    IF w.pipeline # 0
    THEN [w |-> present(pause_recording(w), "close"), returned |-> TRUE]
    ELSE [w |-> w, returned |-> FALSE]

\* _on_close_dialog_response
on_close_dialog_response(w, response) ==
    IF response = "discard"
    THEN destroy([stop_recording(w) EXCEPT !.pipeline = 0])
    ELSE IF response = "save"
    THEN destroy([stop_recording(w) EXCEPT !.pipeline = 0])
    ELSE resume_recording(w)

\* the responses a dialog can give: its buttons, and "close" when it is
\* dismissed
Responses(dialog) ==
    IF dialog = "discard" THEN {"cancel", "discard", "close"}
    ELSE {"save", "discard", "close"}

(***************************************************************************)
(* The events of the window.                                               *)
(***************************************************************************)
This == Window(pipeline, current_recording_path, pipelines, files, page,
               dialogs, destroyed)

\* the GStreamer state of self.pipeline
StateOf(w) == IF w.pipeline = 0 THEN "" ELSE w.pipelines[w.pipeline].state

\* the state after an event whose handler left the window as w
Handled(ev, response, returned, w) ==
    /\ pipeline' = w.pipeline
    /\ current_recording_path' = w.current_recording_path
    /\ pipelines' = w.pipelines
    /\ files' = w.files
    /\ page' = w.page
    /\ dialogs' = w.dialogs
    /\ destroyed' = w.destroyed
    /\ wlast' = WindowEvent(ev, response, returned, pipeline, StateOf(This),
                            current_recording_path, files, dialogs)
    /\ removed' = removed \cup
                    {[path |-> f, ev |-> ev, response |-> response] :
                        f \in files \ w.files}
    /\ strayed' = (strayed \/ (ev \in {"record", "stop"} /\ dialogs # <<>>))
    /\ UNCHANGED <<dir, disk, view, inTx, pc, applied_migrations, todo, cur,
                   hist, ncalls, mgrVars, peerVars>>

\* the Record button, on the home page
RecordClicked ==
    /\ ~destroyed
    /\ page = "home"
    /\ pipeline = 0 => Len(pipelines) < MaxRecordings
    /\ Handled("record", "", FALSE, on_record_clicked(This))

\* the Stop button, on the recording page
StopClicked ==
    /\ ~destroyed
    /\ page = "recording"
    /\ Handled("stop", "", FALSE, on_stop_clicked(This))

\* the Discard button, on the recording page
DiscardClicked ==
    /\ ~destroyed
    /\ page = "recording"
    /\ Len(dialogs) < MaxDialogs
    /\ Handled("discard_clicked", "", FALSE, on_discard_clicked(This))

\* the user navigates back from the recording page
NavigateBack ==
    /\ ~destroyed
    /\ page = "recording"
    /\ Len(dialogs) < MaxDialogs
    /\ LET r == on_nav_view_popped([This EXCEPT !.page = "home"], "recording")
       IN  Handled("navigate_back", "", r.returned, r.w)

\* the window is asked to close; it closes unless the handler returns True
CloseRequest ==
    /\ ~destroyed
    /\ Len(dialogs) < MaxDialogs
    /\ LET r == on_close_request(This)
       IN  Handled("close_request", "", r.returned,
                   IF r.returned THEN r.w ELSE destroy(r.w))

\* the sequence without its i-th element
Without(seq, i) == SubSeq(seq, 1, i - 1) \o SubSeq(seq, i + 1, Len(seq))

\* the user answers an open dialog
DialogResponse(i, response) ==
    /\ ~destroyed
    /\ i \in DOMAIN dialogs
    /\ response \in Responses(dialogs[i])
    /\ LET w == [This EXCEPT !.dialogs = Without(@, i)]
       IN  CASE dialogs[i] = "discard" ->
                  Handled("discard_dialog", response, FALSE,
                          on_discard_dialog_response(w, response))
             [] dialogs[i] = "nav" ->
                  Handled("nav_dialog", response, FALSE,
                          on_nav_view_dialog_response(w, response))
             [] dialogs[i] = "close" ->
                  Handled("close_dialog", response, FALSE,
                          on_close_dialog_response(w, response))

NextWindow ==
    \/ RecordClicked
    \/ StopClicked
    \/ DiscardClicked
    \/ NavigateBack
    \/ CloseRequest
    \/ \E i \in 1..MaxDialogs :
          \E response \in {"cancel", "save", "discard", "close"} :
             DialogResponse(i, response)

InitWindow == Init /\ DOMAIN dir = {}

SpecWindow == InitWindow /\ [][NextWindow]_vars

\* the last event was the answer "discard" to the discard dialog or to the
\* navigate-back dialog
DiscardAnswered ==
    wlast.ev \in {"discard_dialog", "nav_dialog"} /\ wlast.response = "discard"

(***************************************************************************)
(* C23. A recording file is deleted only by the answer "discard" to a      *)
(* confirmation dialog: every file deleted so far was deleted by such an   *)
(* answer, and every other event (Record, Stop, a click on Discard,        *)
(* navigating back, a close request, the answers "save", "cancel" and the  *)
(* dismissal of a dialog, the closing of the window) leaves every file     *)
(* that was on disk, the current recording file among them.                *)
(***************************************************************************)
TheoremC23 ==
    /\ \A r \in removed :
          r.ev \in {"discard_dialog", "nav_dialog", "close_dialog"}
             /\ r.response = "discard"
    /\ ~DiscardAnswered => wlast.files \subseteq files
    /\ (~DiscardAnswered /\ wlast.path # 0 /\ wlast.path \in wlast.files) =>
          wlast.path \in files

\* one recording was discarded and deleted; the next one was saved from the
\* close dialog and is on disk after the window has gone
WitnessC23 ==
    /\ removed # {}
    /\ wlast.ev = "close_dialog"
    /\ wlast.response = "save"
    /\ destroyed
    /\ wlast.path \in files

(***************************************************************************)
(* C24. After the answer "discard" ("Discard and Close") to the close      *)
(* dialog the window is destroyed and the recording file that was current  *)
(* is not on disk.                                                         *)
(***************************************************************************)
ClaimC24 ==
    (wlast.ev = "close_dialog" /\ wlast.response = "discard") =>
       /\ destroyed
       /\ wlast.path # 0 => wlast.path \notin files

(***************************************************************************)
(* C25. While a confirmation dialog is open and unanswered the pipeline is *)
(* PAUSED; the answer "cancel", or the dismissal of a dialog, leaves the   *)
(* same pipeline object PLAYING and the same recording path.  This is for  *)
(* every order of clicks on Discard, navigations back, close requests and  *)
(* answers, as long as neither Record nor Stop is clicked with a dialog    *)
(* open.                                                                   *)
(***************************************************************************)
ClaimC25 ==
    /\ (~strayed /\ dialogs # <<>>) => StateOf(This) = "PAUSED"
    /\ (~strayed
          /\ wlast.ev \in {"discard_dialog", "nav_dialog", "close_dialog"}
          /\ wlast.response \in {"cancel", "close"}) =>
          /\ pipeline # 0
          /\ pipeline = wlast.pipeline
          /\ StateOf(This) = "PLAYING"
          /\ current_recording_path = wlast.path

(***************************************************************************)
(* C26. A close request is blocked exactly when a pipeline exists: the     *)
(* handler then returns True and presents the close dialog, and the window *)
(* stays; with no pipeline it returns False and the window closes.  A      *)
(* window that is destroyed was destroyed by an unblocked close request or *)
(* by the answer "save" or "discard" to a close dialog; any other answer   *)
(* to a close dialog leaves the window.                                    *)
(***************************************************************************)
TheoremC26 ==
    /\ wlast.ev = "close_request" =>
          /\ wlast.returned <=> wlast.pipeline # 0
          /\ wlast.returned =>
                /\ ~destroyed
                /\ dialogs = Append(wlast.dialogs, "close")
          /\ ~wlast.returned => destroyed
    /\ destroyed =>
          \/ wlast.ev = "close_request" /\ wlast.pipeline = 0
          \/ wlast.ev = "close_dialog" /\ wlast.response \in {"save", "discard"}
    /\ (wlast.ev = "close_dialog" /\ wlast.response \notin {"save", "discard"}) =>
          ~destroyed

\* a close request was blocked and its dialog dismissed: the window is
\* still there and the recording goes on
WitnessC26 ==
    /\ wlast.ev = "close_dialog"
    /\ wlast.response = "close"
    /\ ~destroyed
    /\ pipeline # 0
    /\ StateOf(This) = "PLAYING"

(***************************************************************************)
(* C27. After the answer "discard" to the discard dialog or to the         *)
(* navigate-back dialog the recording file that was current is not on      *)
(* disk and pipeline and current_recording_path are both None.  A Record   *)
(* click that finds no pipeline creates a new pipeline object, PLAYING,    *)
(* which writes to a path no earlier pipeline had, so never to the path of *)
(* a discarded recording.                                                  *)
(***************************************************************************)
TheoremC27 ==
    /\ DiscardAnswered =>
          /\ pipeline = 0
          /\ current_recording_path = 0
          /\ wlast.path # 0 => wlast.path \notin files
    /\ (wlast.ev = "record" /\ wlast.pipeline = 0) =>
          /\ pipeline = Len(pipelines)
          /\ pipeline # 0
          /\ StateOf(This) = "PLAYING"
          /\ pipelines[pipeline].path = current_recording_path
          /\ current_recording_path \in files
          /\ \A i \in 1..(pipeline - 1) :
                pipelines[i].path # current_recording_path
          /\ \A r \in removed : r.path # current_recording_path

\* a recording was discarded from a dialog; the next Record click has made
\* a second pipeline that writes to a second file
WitnessC27 ==
    /\ wlast.ev = "record"
    /\ wlast.pipeline = 0
    /\ wlast.path = 0
    /\ removed # {}
    /\ pipeline = 2
    /\ files = {current_recording_path}

(***************************************************************************)
(* C28. Every live handle of a manager enforces foreign keys and yields    *)
(* rows addressable by column name, the handles opened after a close()     *)
(* too; the handle a method has just used or returned has this             *)
(* configuration, and a query that finds rows returns them as dictionaries *)
(* rather than failing to convert them.                                    *)
(***************************************************************************)
TheoremC28 ==
    /\ \A i \in LiveHandles :
          handles[i].foreign_keys /\ handles[i].row_factory = "Row"
    /\ last.op \in UsesConn =>
          /\ self_conn \in LiveHandles
          /\ handles[self_conn].foreign_keys
          /\ handles[self_conn].row_factory = "Row"
    /\ last.op \in {"query", "query_one", "table_exists"} => last.err # "TypeError"
    /\ (last.op = "query" /\ ~last.raised) =>
          \A k \in DOMAIN last.result.val : last.result.val[k].tag = "dict"

\* after a close() the manager has opened a second handle and a query on
\* it has returned a row as a dictionary
WitnessC28 ==
    /\ last.op = "query"
    /\ ~last.raised
    /\ last.result.val # <<>>
    /\ last.result.val[1].tag = "dict"
    /\ self_conn >= 2
    /\ last.h0 = 0

====
